---- MODULE Spec2Model ----
(***************************************************************************)
(* State-machine model of src/routes/+page.svelte (user-notes-search):     *)
(* the fetchEvents pipeline (identity normalisation, discovery, relay      *)
(* resolution, streaming merge, cancellation, release) and the search      *)
(* filter / highlight functions.                                           *)
(*                                                                         *)
(* Strings of the program are sequences of characters.  Documents are      *)
(* records.  The nostr-fetch iterators are the environment: they deliver   *)
(* documents in any order, may deliver a document more than once, may      *)
(* throw, and end.                                                         *)
(***************************************************************************)
EXTENDS Integers, Sequences, FiniteSets, TLC

VARIABLES
    publicKey,       \* line 8   text of the pubkey input
    events,          \* line 9   the Result Feed
    profileEvents,   \* line 10  Map<pubkey, event>; NoEvent = no entry
    relayListEvent,  \* line 11  retained relay-list document or NoEvent (null)
    beforeLoad,      \* line 12
    loading,         \* line 13
    error,           \* line 14  "null" or a message
    searchQuery,     \* line 15
    controller,      \* line 16  identity of the installed AbortController
    aborted,         \* set of controllers whose signal is aborted
    pc,              \* position of fetchEvents: idle/discovery/content/shutdown
    fetcher,         \* transport handle of the current fetch: none/open/closed
    pubkey,          \* line 106 normalised key of the current fetch
    writeRelays,     \* line 132 resolved content relays
    signal,          \* line 142 controller whose signal the content iterator got
    delivered,       \* number of documents delivered to the current fetch
    hist,            \* history of the current fetch (observations only)
    parts            \* last result of splitTextForHighlight (search model)

vars == <<publicKey, events, profileEvents, relayListEvent, beforeLoad, loading,
          error, searchQuery, controller, aborted, pc, fetcher, pubkey,
          writeRelays, signal, delivered, hist, parts>>

(***************************************************************************)
(* Bounds                                                                  *)
(***************************************************************************)
MaxPosts == 3        \* post documents the content relays hold
MaxDeliveries == 3   \* documents one fetch receives (discovery + content)
MaxAborts == 2       \* abort() calls in a run
MaxTextLen == 3      \* length of a post payload in the search model
MaxQueryLen == 2     \* length of a search query in the search model
MaxTags == 2         \* tags of a relay-list document in the resolver model

Min(a, b) == IF a < b THEN a ELSE b

(***************************************************************************)
(* Strings                                                                 *)
(***************************************************************************)
\* "U0130" is the one character U+0130 (capital I with dot above); its
\* lower case is the two characters U+0069 U+0307.
Alphabet == {"a", "A", "b", " ", "U0130"}

Whitespace == {" "}

LowerChar(c) ==
    CASE c = "A" -> <<"a">>
      [] c = "U0130" -> <<"i", "U0307">>
      [] OTHER -> <<c>>

RECURSIVE toLowerCase(_)
toLowerCase(s) ==
    IF s = <<>> THEN <<>> ELSE LowerChar(Head(s)) \o toLowerCase(Tail(s))

RECURSIVE TrimStart(_)
TrimStart(s) ==
    IF s # <<>> /\ Head(s) \in Whitespace THEN TrimStart(Tail(s)) ELSE s

RECURSIVE TrimEnd(_)
TrimEnd(s) ==
    IF s # <<>> /\ s[Len(s)] \in Whitespace
    THEN TrimEnd(SubSeq(s, 1, Len(s) - 1)) ELSE s

trim(s) == TrimEnd(TrimStart(s))

\* String.prototype.slice(a, b) for 0 <= a, with 0-based offsets
slice(s, a, b) ==
    LET lo == Min(a, Len(s))
        hi == Min(b, Len(s))
    IN  IF lo >= hi THEN <<>> ELSE SubSeq(s, lo + 1, hi)

startsWith(s, p) == Len(s) >= Len(p) /\ SubSeq(s, 1, Len(p)) = p

\* String.prototype.indexOf(q, from): 0-based offset of the first occurrence
\* of q at or after from, -1 when there is none
indexOf(s, q, from) ==
    LET hits == {i \in from .. (Len(s) - Len(q)) : SubSeq(s, i + 1, i + Len(q)) = q}
    IN  IF Len(q) = 0 THEN Min(from, Len(s))
        ELSE IF hits = {} THEN -1
        ELSE CHOOSE i \in hits : \A j \in hits : i <= j

includes(s, q) == indexOf(s, q, 0) # -1

\* All strings over Alphabet of length at most n
StringsUpTo(n) == UNION {[1..k -> Alphabet] : k \in 0..n}

(***************************************************************************)
(* Search filter and highlight (lines 35-44, 166-194)                      *)
(***************************************************************************)
RECURSIVE SplitLoop(_, _, _, _, _, _)
SplitLoop(text, textLower, queryLower, qlen, lastIndex, acc) ==
    LET index == indexOf(textLower, queryLower, lastIndex)
    IN  IF index = -1
        THEN IF lastIndex < Len(text)
             THEN Append(acc, [text |-> slice(text, lastIndex, Len(text)), isMatch |-> FALSE])
             ELSE acc
        ELSE LET acc1 == IF index > lastIndex
                         THEN Append(acc, [text |-> slice(text, lastIndex, index),
                                           isMatch |-> FALSE])
                         ELSE acc
                 acc2 == Append(acc1, [text |-> slice(text, index, index + qlen),
                                       isMatch |-> TRUE])
             IN  SplitLoop(text, textLower, queryLower, qlen, index + qlen, acc2)

splitTextForHighlight(text, query) ==
    IF trim(query) = <<>>
    THEN <<[text |-> text, isMatch |-> FALSE]>>
    ELSE LET res == SplitLoop(text, toLowerCase(text), toLowerCase(trim(query)),
                              Len(query), 0, <<>>)
         IN  IF Len(res) > 0 THEN res ELSE <<[text |-> text, isMatch |-> FALSE]>>

\* filteredEvents comparing the payload without lower-casing it
filteredEvents_caseSensitive(evs, sq) ==
    LET kind1Events == SelectSeq(evs, LAMBDA event : event.kind = 1)
    IN  IF trim(sq) = <<>>
        THEN kind1Events
        ELSE LET query == toLowerCase(trim(sq))
             IN  SelectSeq(kind1Events, LAMBDA event : includes(event.content, query))

\* $derived filteredEvents of the feed evs under the search text sq
filteredEvents(evs, sq) ==
    LET kind1Events == SelectSeq(evs, LAMBDA event : event.kind = 1)
    IN  IF trim(sq) = <<>>
        THEN kind1Events
        ELSE LET query == toLowerCase(trim(sq))
             IN  SelectSeq(kind1Events,
                           LAMBDA event : includes(toLowerCase(event.content), query))

(***************************************************************************)
(* Documents                                                               *)
(***************************************************************************)
Doc(id, kind, author, createdAt, tags, content) ==
    [id |-> id, kind |-> kind, pubkey |-> author, created_at |-> createdAt,
     tags |-> tags, content |-> content]

\* null / no map entry
NoEvent == Doc(0, 0, <<>>, 0, <<>>, <<>>)

HexDigits == {"0", "1", "2", "3", "4", "5", "6", "7", "8", "9",
              "a", "b", "c", "d", "e", "f", "A", "B", "C", "D", "E", "F"}

TargetKey == [i \in 1..64 |-> "a"]
ForeignKey == [i \in 1..64 |-> "f"]
Authors == {TargetKey, ForeignKey}

\* Post documents held by the content relays: ids 1..MaxPosts, two posts per
\* timestamp, so that equal timestamps occur
PostContent(i) == IF i % 2 = 1 THEN <<"a", "b">> ELSE <<"A">>
Post(i) == Doc(i, 1, TargetKey, (i + 1) \div 2, <<>>, PostContent(i))
PostPool == {Post(i) : i \in 1..MaxPosts}

\* Relay values that occur in "r" tags.  "wss://" has the scheme and no host.
RelayA == "wss://a.example"
RelayB == "wss://b.example"
RelayValues == {RelayA, RelayB, "ws://c.example", "wss://"}

\* tag[1].startsWith('wss://') and URL.canParse(tag[1]) on RelayValues
StartsWithWss(v) == v \in {RelayA, RelayB, "wss://"}
CanParse(v) == v \in {RelayA, RelayB, "ws://c.example"}

\* Documents the discovery relays may deliver (kinds 0 and 10002)
DiscoveryPool ==
    { Doc(101, 10002, TargetKey, 1, <<<<"r", RelayA, "write">>, <<"r", RelayB, "read">>>>, <<>>),
      Doc(102, 10002, TargetKey, 2, <<<<"r", RelayB, "read">>>>, <<>>),
      Doc(103, 10002, TargetKey, 1, <<<<"r">>>>, <<>>),
      Doc(104, 10002, ForeignKey, 3, <<<<"r", RelayB>>>>, <<>>),
      Doc(105, 0, TargetKey, 1, <<>>, <<"a">>),
      Doc(106, 0, ForeignKey, 1, <<>>, <<"b">>) }

(***************************************************************************)
(* normalizePubkey (lines 53-72)                                           *)
(***************************************************************************)
NpubGood == <<"n", "p", "u", "b", "1", "q">>
NpubBad == <<"n", "p", "u", "b", "1", "!">>

\* nip19.decode on the inputs of the model
nip19decode(s) ==
    IF s = NpubGood THEN [threw |-> FALSE, type |-> "npub", data |-> TargetKey]
    ELSE [threw |-> TRUE, type |-> "", data |-> <<>>]

MsgBadNpub == "invalid npub"
MsgBadFormat == "npub or 64-char hex required"
MsgTransport == "transport error"
MsgTypeError == "TypeError"

Returned(v) == [threw |-> FALSE, value |-> v, message |-> "null"]
Thrown(m) == [threw |-> TRUE, value |-> <<>>, message |-> m]

\* normalizePubkey with the hex pattern lacking its length
normalizePubkey_anyHex(input) ==
    LET trimmed == trim(input)
    IN  IF trimmed # <<>> /\ \A i \in 1..Len(trimmed) : trimmed[i] \in HexDigits
        THEN Returned(trimmed)
        ELSE Thrown(MsgBadFormat)

normalizePubkey(input) ==
    LET trimmed == trim(input)
        decoded == nip19decode(trimmed)
    IN  IF Len(trimmed) = 64 /\ \A i \in 1..64 : trimmed[i] \in HexDigits
        THEN Returned(trimmed)
        ELSE IF startsWith(trimmed, <<"n", "p", "u", "b">>)
             THEN IF decoded.threw THEN Thrown(MsgBadNpub)
                  ELSE IF decoded.type = "npub" THEN Returned(decoded.data)
                  ELSE Thrown(MsgBadFormat)
             ELSE Thrown(MsgBadFormat)

\* Texts the user may type into the pubkey input
PubkeyInputs ==
    { <<>>, TargetKey, <<" ">> \o NpubBad, SubSeq(TargetKey, 1, 63) }

(***************************************************************************)
(* extractWriteRelays (lines 74-87)                                        *)
(***************************************************************************)
defaultRelays == <<"wss://relay.damus.io", "wss://nos.lol", "wss://yabu.me/">>

\* reading tag[i] (0-based) of a tag; "undefined" past its end
TagAt(tag, i) == IF i < Len(tag) THEN tag[i + 1] ELSE "undefined"

\* the filter callback dereferences tag[1] once tag[0] is 'r'
TagThrows(tag) == TagAt(tag, 0) = "r" /\ Len(tag) < 2

TagKept(tag) ==
    /\ TagAt(tag, 0) = "r"
    /\ StartsWithWss(TagAt(tag, 1))
    /\ CanParse(TagAt(tag, 1))
    /\ TagAt(tag, 2) # "read"

RECURSIVE MapTag1(_)
MapTag1(tags) ==
    IF tags = <<>> THEN <<>> ELSE <<TagAt(Head(tags), 1)>> \o MapTag1(Tail(tags))

extractWriteRelays(event) ==
    IF event = NoEvent \/ event.kind # 10002
    THEN Returned(defaultRelays)
    ELSE IF \E i \in 1..Len(event.tags) : TagThrows(event.tags[i])
         THEN Thrown(MsgTypeError)
         ELSE LET relays == MapTag1(SelectSeq(event.tags, TagKept))
              IN  IF Len(relays) > 0 THEN Returned(relays) ELSE Returned(defaultRelays)

(***************************************************************************)
(* insertEventIntoDescendingList (imported at line 5, called at line 146). *)
(* The function belongs to the nostr-tools package; its body is the        *)
(* package's utils.ts: a binary search with the comparator below, then a   *)
(* splice at the position found unless the id was met.                     *)
(***************************************************************************)
\* the comparator sending a post past the posts of its own timestamp
InsertCompare_stable(event, b) ==
    IF event.id = b.id THEN 0
    ELSE IF event.created_at = b.created_at THEN 1
    ELSE b.created_at - event.created_at

\* comparator passed to binarySearch
InsertCompare(event, b) ==
    IF event.id = b.id THEN 0
    ELSE IF event.created_at = b.created_at THEN -1
    ELSE b.created_at - event.created_at

\* binarySearch over 0-based offsets start..end: <<position, found>>
RECURSIVE binarySearch(_, _, _, _)
binarySearch(arr, event, start, end) ==
    IF start > end THEN <<start, FALSE>>
    ELSE LET mid == (start + end) \div 2
             cmp == InsertCompare(event, arr[mid + 1])
         IN  IF cmp = 0 THEN <<mid, TRUE>>
             ELSE IF cmp < 0 THEN binarySearch(arr, event, start, mid - 1)
             ELSE binarySearch(arr, event, mid + 1, end)

insertEventIntoDescendingList(sortedArray, event) ==
    LET r == binarySearch(sortedArray, event, 0, Len(sortedArray) - 1)
        idx == r[1]
    IN  IF r[2] THEN sortedArray
        ELSE SubSeq(sortedArray, 1, idx) \o <<event>>
             \o SubSeq(sortedArray, idx + 1, Len(sortedArray))

(***************************************************************************)
(* Component state and fetchEvents (lines 8-16, 89-160)                    *)
(***************************************************************************)
NoProfiles == [a \in Authors |-> NoEvent]

\* observations of the current fetch: handles created, shutdown() calls,
\* iterators opened, why the fetch left its try block, the feed when the
\* cancellation was observed, whether the content signal was aborted when the
\* content iterator was opened, the input text the fetch read, the controller
\* installed when the fetch started, the discovery documents in arrival order
\* (recorded in the discovery model only)
NoHist == [inits |-> 0, shutdowns |-> 0, subs |-> 0, cause |-> "none",
           atCancel |-> <<>>, openAborted |-> FALSE, input |-> <<>>,
           c0 |-> 0, received |-> <<>>]

SearchInputs == {<<>>, <<"a">>}

Init ==
    /\ publicKey = <<>>
    /\ events = <<>>
    /\ profileEvents = NoProfiles
    /\ relayListEvent = NoEvent
    /\ beforeLoad = TRUE
    /\ loading = FALSE
    /\ error = "null"
    /\ searchQuery = <<>>
    /\ controller = 0
    /\ aborted = {}
    /\ pc = "idle"
    /\ fetcher = "none"
    /\ pubkey = <<>>
    /\ writeRelays = <<>>
    /\ signal = -1
    /\ delivered = 0
    /\ hist = NoHist
    /\ parts = <<>>

\* bind:value of the pubkey input, disabled while loading (lines 225-232)
InputPublicKey ==
    /\ ~loading
    /\ \E k \in PubkeyInputs : publicKey' = k
    /\ UNCHANGED <<events, profileEvents, relayListEvent, beforeLoad, loading, error,
                   searchQuery, controller, aborted, pc, fetcher, pubkey, writeRelays,
                   signal, delivered, hist, parts>>

\* login(): the extension's key replaces the input text (lines 200-206)
login ==
    /\ publicKey' = TargetKey
    /\ UNCHANGED <<events, profileEvents, relayListEvent, beforeLoad, loading, error,
                   searchQuery, controller, aborted, pc, fetcher, pubkey, writeRelays,
                   signal, delivered, hist, parts>>

\* bind:value of the search input, rendered when events.length > 0 || loading
InputSearchQuery ==
    /\ Len(events) > 0 \/ loading
    /\ \E q \in SearchInputs : searchQuery' = q
    /\ UNCHANGED <<publicKey, events, profileEvents, relayListEvent, beforeLoad, loading,
                   error, controller, aborted, pc, fetcher, pubkey, writeRelays,
                   signal, delivered, hist, parts>>

\* catch without the finally block's shutdown() call
CatchFinally_noShutdown(message, cause, feed) ==
    /\ error' = message
    /\ pc' = "shutdown"
    /\ hist' = [hist EXCEPT !.cause = cause, !.atCancel = feed]
    /\ UNCHANGED fetcher

\* catch + the call of fetcher.shutdown() in finally (lines 148-152): the
\* fetch then waits for shutdown to complete
CatchFinally(message, cause, feed) ==
    /\ error' = message
    /\ pc' = "shutdown"
    /\ fetcher' = "shutdown"
    /\ hist' = [hist EXCEPT !.shutdowns = @ + 1, !.cause = cause, !.atCancel = feed]

\* finally without a caught error
Finally(cause, feed) ==
    /\ pc' = "shutdown"
    /\ fetcher' = "shutdown"
    /\ hist' = [hist EXCEPT !.shutdowns = @ + 1, !.cause = cause, !.atCancel = feed]
    /\ UNCHANGED error

\* the fetch button enabled whatever loading is
FetchEnabled_ignoresLoading == trim(publicKey) # <<>>

\* the fetch button is enabled: disabled={loading || !publicKey.trim()}
\* (line 235); loading is true while fetchEvents runs (lines 96, 153)
FetchEnabled ==
    /\ pc = "idle"
    /\ ~loading
    /\ trim(publicKey) # <<>>

\* fetchEvents starting without line 98
FetchStart_keepsFeed ==
    /\ FetchEnabled
    /\ beforeLoad' = FALSE
    /\ loading' = TRUE
    /\ profileEvents' = NoProfiles
    /\ relayListEvent' = NoEvent
    /\ searchQuery' = <<>>
    /\ delivered' = 0
    /\ writeRelays' = <<>>
    /\ signal' = -1
    /\ LET r == normalizePubkey(publicKey)
       IN  IF r.threw
           THEN /\ error' = r.message
                /\ pc' = "shutdown"
                /\ fetcher' = "shutdown"
                /\ pubkey' = <<>>
                /\ hist' = [NoHist EXCEPT !.inits = 1, !.shutdowns = 1,
                                          !.cause = "identity", !.input = publicKey,
                                          !.c0 = controller]
           ELSE /\ error' = "null"
                /\ pc' = "discovery"
                /\ fetcher' = "open"
                /\ pubkey' = r.value
                /\ hist' = [NoHist EXCEPT !.inits = 1, !.subs = 1, !.input = publicKey,
                                          !.c0 = controller]
    /\ UNCHANGED <<publicKey, events, controller, aborted, parts>>

\* fetchEvents up to its first await: the early return of lines 90-93 is
\* never taken since the button is disabled then; lines 95-116, and 148-152
\* when normalizePubkey throws
FetchStart ==
    /\ FetchEnabled
    /\ beforeLoad' = FALSE
    /\ loading' = TRUE
    /\ events' = <<>>
    /\ profileEvents' = NoProfiles
    /\ relayListEvent' = NoEvent
    /\ searchQuery' = <<>>
    /\ delivered' = 0
    /\ writeRelays' = <<>>
    /\ signal' = -1
    /\ LET r == normalizePubkey(publicKey)
       IN  IF r.threw
           THEN /\ error' = r.message
                /\ pc' = "shutdown"
                /\ fetcher' = "shutdown"
                /\ pubkey' = <<>>
                /\ hist' = [NoHist EXCEPT !.inits = 1, !.shutdowns = 1,
                                          !.cause = "identity", !.input = publicKey,
                                          !.c0 = controller]
           ELSE /\ error' = "null"
                /\ pc' = "discovery"
                /\ fetcher' = "open"
                /\ pubkey' = r.value
                /\ hist' = [NoHist EXCEPT !.inits = 1, !.subs = 1, !.input = publicKey,
                                          !.c0 = controller]
    /\ UNCHANGED <<publicKey, controller, aborted, parts>>

\* the discovery loop body replacing a snapshot by a document of the same
\* created_at
DiscoveryLoopBody_replacesOnTie(event) ==
    IF event.kind = 0
    THEN LET existing == profileEvents[event.pubkey]
         IN  /\ profileEvents' =
                  IF existing = NoEvent \/ event.created_at >= existing.created_at
                  THEN [profileEvents EXCEPT ![event.pubkey] = event]
                  ELSE profileEvents
             /\ UNCHANGED relayListEvent
    ELSE IF event.kind = 10002
    THEN /\ relayListEvent' =
              IF relayListEvent = NoEvent
                 \/ event.created_at >= relayListEvent.created_at
              THEN event ELSE relayListEvent
         /\ UNCHANGED profileEvents
    ELSE UNCHANGED <<profileEvents, relayListEvent>>

\* the discovery loop body for one document (lines 119-129)
DiscoveryLoopBody(event) ==
    IF event.kind = 0
    THEN LET existing == profileEvents[event.pubkey]
         IN  /\ profileEvents' =
                  IF existing = NoEvent \/ event.created_at > existing.created_at
                  THEN [profileEvents EXCEPT ![event.pubkey] = event]
                  ELSE profileEvents
             /\ UNCHANGED relayListEvent
    ELSE IF event.kind = 10002
    THEN /\ relayListEvent' =
              IF relayListEvent = NoEvent
                 \/ event.created_at > relayListEvent.created_at
              THEN event ELSE relayListEvent
         /\ UNCHANGED profileEvents
    ELSE UNCHANGED <<profileEvents, relayListEvent>>

\* the discovery loop ending its deliveries once abort() was called
DiscoveryDeliver_cancellable ==
    /\ pc = "discovery"
    /\ hist.c0 = controller
    /\ delivered < MaxDeliveries
    /\ \E event \in DiscoveryPool : DiscoveryLoopBody(event)
    /\ delivered' = delivered + 1
    /\ UNCHANGED <<publicKey, events, beforeLoad, loading, error, searchQuery, controller,
                   aborted, pc, fetcher, pubkey, writeRelays, signal, hist, parts>>

\* one pass of the discovery loop (lines 118-130)
DiscoveryDeliver ==
    /\ pc = "discovery"
    /\ delivered < MaxDeliveries
    /\ \E event \in DiscoveryPool : DiscoveryLoopBody(event)
    /\ delivered' = delivered + 1
    /\ UNCHANGED <<publicKey, events, beforeLoad, loading, error, searchQuery, controller,
                   aborted, pc, fetcher, pubkey, writeRelays, signal, hist, parts>>

\* the discovery iterator throws (lines 118, 148-152)
DiscoveryError ==
    /\ pc = "discovery"
    /\ CatchFinally(MsgTransport, "error", events)
    /\ UNCHANGED <<publicKey, events, profileEvents, relayListEvent, beforeLoad, loading,
                   searchQuery, controller, aborted, pubkey, writeRelays, signal,
                   delivered, parts>>

\* the discovery iterator is exhausted: lines 132-143, and 148-152 when
\* extractWriteRelays throws
DiscoveryDone ==
    /\ pc = "discovery"
    /\ LET r == extractWriteRelays(relayListEvent)
       IN  IF r.threw
           THEN /\ CatchFinally(r.message, "error", events)
                /\ UNCHANGED <<writeRelays, signal>>
           ELSE /\ writeRelays' = r.value
                /\ signal' = controller
                /\ pc' = "content"
                /\ hist' = [hist EXCEPT !.subs = @ + 1,
                                        !.openAborted = controller \in aborted]
                /\ UNCHANGED <<error, fetcher>>
    /\ UNCHANGED <<publicKey, events, profileEvents, relayListEvent, beforeLoad, loading,
                   searchQuery, controller, aborted, pubkey, delivered, parts>>

\* the content loop body merging into an empty list
ContentDeliver_replaces ==
    /\ pc = "content"
    /\ delivered < MaxDeliveries
    /\ \E event \in PostPool : events' = insertEventIntoDescendingList(<<>>, event)
    /\ delivered' = delivered + 1
    /\ UNCHANGED <<publicKey, profileEvents, relayListEvent, beforeLoad, loading, error,
                   searchQuery, controller, aborted, pc, fetcher, pubkey, writeRelays,
                   signal, hist, parts>>

\* the content loop body pushing the document at the end of the feed
ContentDeliver_appends ==
    /\ pc = "content"
    /\ delivered < MaxDeliveries
    /\ \E event \in PostPool : events' = Append(events, event)
    /\ delivered' = delivered + 1
    /\ UNCHANGED <<publicKey, profileEvents, relayListEvent, beforeLoad, loading, error,
                   searchQuery, controller, aborted, pc, fetcher, pubkey, writeRelays,
                   signal, hist, parts>>

\* one pass of the content loop body (lines 145-147)
ContentDeliver ==
    /\ pc = "content"
    /\ delivered < MaxDeliveries
    /\ \E event \in PostPool : events' = insertEventIntoDescendingList(events, event)
    /\ delivered' = delivered + 1
    /\ UNCHANGED <<publicKey, profileEvents, relayListEvent, beforeLoad, loading, error,
                   searchQuery, controller, aborted, pc, fetcher, pubkey, writeRelays,
                   signal, hist, parts>>

\* the content iterator is exhausted (lines 145, 151-152)
ContentDone ==
    /\ pc = "content"
    /\ Finally("complete", events)
    /\ UNCHANGED <<publicKey, events, profileEvents, relayListEvent, beforeLoad, loading,
                   searchQuery, controller, aborted, pubkey, writeRelays, signal,
                   delivered, parts>>

\* the catch block emptying the feed
ContentError_clearsFeed ==
    /\ pc = "content"
    /\ CatchFinally(MsgTransport, "error", events)
    /\ events' = <<>>
    /\ UNCHANGED <<publicKey, profileEvents, relayListEvent, beforeLoad, loading,
                   searchQuery, controller, aborted, pubkey, writeRelays, signal,
                   delivered, parts>>

\* the content iterator throws (lines 145, 148-152)
ContentError ==
    /\ pc = "content"
    /\ CatchFinally(MsgTransport, "error", events)
    /\ UNCHANGED <<publicKey, events, profileEvents, relayListEvent, beforeLoad, loading,
                   searchQuery, controller, aborted, pubkey, writeRelays, signal,
                   delivered, parts>>

\* the content iterator throwing on abort instead of ending
ContentCancelled_throws ==
    /\ pc = "content"
    /\ signal \in aborted
    /\ CatchFinally("AbortError", "cancel", events)
    /\ UNCHANGED <<publicKey, events, profileEvents, relayListEvent, beforeLoad, loading,
                   searchQuery, controller, aborted, pubkey, writeRelays, signal,
                   delivered, parts>>

\* the content iterator ends because its signal is aborted (lines 142, 145,
\* 151-152)
ContentCancelled ==
    /\ pc = "content"
    /\ signal \in aborted
    /\ Finally("cancel", events)
    /\ UNCHANGED <<publicKey, events, profileEvents, relayListEvent, beforeLoad, loading,
                   searchQuery, controller, aborted, pubkey, writeRelays, signal,
                   delivered, parts>>

\* the fetch resuming without line 153
ShutdownDone_keepsLoading ==
    /\ pc = "shutdown"
    /\ fetcher' = "closed"
    /\ pc' = "idle"
    /\ UNCHANGED <<publicKey, events, profileEvents, relayListEvent, beforeLoad, loading,
                   error, searchQuery, controller, aborted, pubkey, writeRelays, signal,
                   delivered, hist, parts>>

\* fetcher.shutdown() completes and the fetch resumes (lines 152-154)
ShutdownDone ==
    /\ pc = "shutdown"
    /\ fetcher' = "closed"
    /\ loading' = FALSE
    /\ pc' = "idle"
    /\ UNCHANGED <<publicKey, events, profileEvents, relayListEvent, beforeLoad, error,
                   searchQuery, controller, aborted, pubkey, writeRelays, signal,
                   delivered, hist, parts>>

\* abort() without line 159
abort_keepsController ==
    /\ loading
    /\ controller < MaxAborts
    /\ aborted' = aborted \cup {controller}
    /\ UNCHANGED <<publicKey, events, profileEvents, relayListEvent, beforeLoad, loading,
                   error, searchQuery, controller, pc, fetcher, pubkey, writeRelays,
                   signal, delivered, hist, parts>>

\* abort(), its button rendered while loading (lines 157-160, 280-288)
abort ==
    /\ loading
    /\ controller < MaxAborts
    /\ aborted' = aborted \cup {controller}
    /\ controller' = controller + 1
    /\ UNCHANGED <<publicKey, events, profileEvents, relayListEvent, beforeLoad, loading,
                   error, searchQuery, pc, fetcher, pubkey, writeRelays, signal,
                   delivered, hist, parts>>

Next ==
    \/ InputPublicKey
    \/ login
    \/ InputSearchQuery
    \/ FetchStart
    \/ DiscoveryDeliver
    \/ DiscoveryError
    \/ DiscoveryDone
    \/ ContentDeliver
    \/ ContentDone
    \/ ContentError
    \/ ContentCancelled
    \/ ShutdownDone
    \/ abort

Spec == Init /\ [][Next]_vars

\* The iterators end or throw, an aborted content iterator ends, and
\* shutdown() completes
\* The discovery iterator ends or throws, an aborted content iterator ends,
\* and shutdown() completes.  Nothing makes a content iterator end whose
\* signal is not aborted.
LiveSpec ==
    Spec /\ WF_vars(DiscoveryDone \/ DiscoveryError \/ ContentCancelled \/ ShutdownDone)

(***************************************************************************)
(* Relay resolution on its own: every relay-list document with at most     *)
(* MaxTags tags is resolved once                                           *)
(***************************************************************************)
TagPool ==
    {<<"r">>, <<"p", RelayA>>}
    \cup {<<"r", v>> : v \in RelayValues}
    \cup {<<"r", v, m>> : v \in RelayValues, m \in {"read", "write"}}

RelayListDocs ==
    {Doc(101, 10002, TargetKey, 1, tags, <<>>) :
        tags \in UNION {[1..k -> TagPool] : k \in 0..MaxTags}}

InitRelays ==
    /\ publicKey = TargetKey
    /\ events = <<>>
    /\ profileEvents = NoProfiles
    /\ relayListEvent \in RelayListDocs \cup {NoEvent}
    /\ beforeLoad = FALSE
    /\ loading = TRUE
    /\ error = "null"
    /\ searchQuery = <<>>
    /\ controller = 0
    /\ aborted = {}
    /\ pc = "resolve"
    /\ fetcher = "open"
    /\ pubkey = TargetKey
    /\ writeRelays = <<>>
    /\ signal = -1
    /\ delivered = 0
    /\ hist = NoHist
    /\ parts = <<>>

\* line 132, and line 149 when it throws
ResolveRelays ==
    /\ pc = "resolve"
    /\ LET r == extractWriteRelays(relayListEvent)
       IN  /\ writeRelays' = r.value
           /\ error' = r.message
    /\ pc' = "resolved"
    /\ UNCHANGED <<publicKey, events, profileEvents, relayListEvent, beforeLoad, loading,
                   searchQuery, controller, aborted, fetcher, pubkey, signal, delivered,
                   hist, parts>>

NextRelays == ResolveRelays

SpecRelays == InitRelays /\ [][NextRelays]_vars

(***************************************************************************)
(* Search on its own: a feed whose first post has any payload of at most   *)
(* MaxTextLen characters, and any query of at most MaxQueryLen characters  *)
(***************************************************************************)
InitSearch ==
    /\ publicKey = TargetKey
    /\ \E text \in StringsUpTo(MaxTextLen) :
         events = <<Doc(3, 1, TargetKey, 2, <<>>, text), Post(2)>>
    /\ profileEvents = NoProfiles
    /\ relayListEvent = NoEvent
    /\ beforeLoad = FALSE
    /\ loading = FALSE
    /\ error = "null"
    /\ searchQuery = <<>>
    /\ controller = 0
    /\ aborted = {}
    /\ pc = "idle"
    /\ fetcher = "closed"
    /\ pubkey = TargetKey
    /\ writeRelays = defaultRelays
    /\ signal = 0
    /\ delivered = 0
    /\ hist = NoHist
    /\ parts = <<>>

\* texts one keystroke away from q: a character typed at the end, or the
\* last character deleted
Keystrokes(q) ==
    {Append(q, c) : c \in {d \in Alphabet : Len(q) < MaxQueryLen}}
    \cup {SubSeq(q, 1, Len(q) - 1) : n \in {m \in {0} : Len(q) > 0}}

\* the search input changes and the first post is rendered again
\* (lines 262, 345)
SearchInput ==
    /\ \E q \in Keystrokes(searchQuery) :
         /\ searchQuery' = q
         /\ parts' = splitTextForHighlight(events[1].content, trim(q))
    /\ UNCHANGED <<publicKey, events, profileEvents, relayListEvent, beforeLoad, loading,
                   error, controller, aborted, pc, fetcher, pubkey, writeRelays,
                   signal, delivered, hist>>

NextSearch == SearchInput

SpecSearch == InitSearch /\ [][NextSearch]_vars

(***************************************************************************)
(* Discovery on its own: a fetch of TargetKey that has opened its          *)
(* discovery iterator; the documents are recorded in arrival order         *)
(***************************************************************************)
\* DiscoveryPool and two more profiles of the target
DiscoveryPoolWide ==
    DiscoveryPool
    \cup { Doc(107, 0, TargetKey, 1, <<>>, <<"b">>),
           Doc(108, 0, TargetKey, 2, <<>>, <<"A">>) }

InitDiscovery ==
    /\ publicKey = TargetKey
    /\ events = <<>>
    /\ profileEvents = NoProfiles
    /\ relayListEvent = NoEvent
    /\ beforeLoad = FALSE
    /\ loading = TRUE
    /\ error = "null"
    /\ searchQuery = <<>>
    /\ controller = 0
    /\ aborted = {}
    /\ pc = "discovery"
    /\ fetcher = "open"
    /\ pubkey = TargetKey
    /\ writeRelays = <<>>
    /\ signal = -1
    /\ delivered = 0
    /\ hist = [NoHist EXCEPT !.inits = 1, !.subs = 1, !.input = TargetKey]
    /\ parts = <<>>

\* one pass of the discovery loop (lines 118-130), the document recorded
DiscoveryObserved ==
    /\ pc = "discovery"
    /\ delivered < MaxDeliveries
    /\ \E event \in DiscoveryPoolWide :
         /\ DiscoveryLoopBody(event)
         /\ hist' = [hist EXCEPT !.received = Append(@, event)]
    /\ delivered' = delivered + 1
    /\ UNCHANGED <<publicKey, events, beforeLoad, loading, error, searchQuery, controller,
                   aborted, pc, fetcher, pubkey, writeRelays, signal, parts>>

NextDiscovery ==
    \/ DiscoveryObserved
    \/ DiscoveryDone
    \/ DiscoveryError

SpecDiscovery == InitDiscovery /\ [][NextDiscovery]_vars

(***************************************************************************)
(* Properties                                                              *)
(***************************************************************************)

\* C1: at every snapshot the Result Feed is sorted descending by created_at:
\* no document stands before a document with a larger timestamp.
C1_FeedSortedDescending ==
    \A i, j \in 1..Len(events) :
        i < j => events[i].created_at >= events[j].created_at

\* three posts of two different timestamps have been merged
C1_Witness ==
    /\ pc = "content"
    /\ Len(events) = 3
    /\ events[1].created_at > events[3].created_at

\* C2: the Result Feed never holds two documents with the same id, whatever
\* the arrival sequence (the same post delivered twice, ties on created_at).
C2_NoDuplicateIds ==
    \A i, j \in 1..Len(events) : i # j => events[i].id # events[j].id

\* C3: a fetch whose content iterator ended by cancellation has no error,
\* keeps the feed exactly as merged when the cancellation was observed, and
\* ends with loading false.
C3_CancelKeepsFeedWithoutError ==
    hist.cause = "cancel" =>
        /\ error = "null"
        /\ events = hist.atCancel
        /\ pc \in {"shutdown", "idle"}
        /\ pc = "idle" => ~loading

\* a fetch aborted after it merged posts has ended
C3_Witness ==
    /\ hist.cause = "cancel"
    /\ pc = "idle"
    /\ Len(events) >= 1
    /\ error = "null"
    /\ ~loading

\* C4: the installed controller is never aborted between actions, and the
\* content iterator is opened with a signal that is not aborted when it is
\* opened.
C4_InstalledControllerFresh ==
    /\ controller \notin aborted
    /\ ~hist.openAborted
    /\ pc = "content" /\ signal \in aborted => signal # controller

\* a content iterator opened after an abort() with the controller installed
\* by that abort()
C4_Witness ==
    /\ pc = "content"
    /\ aborted # {}
    /\ signal = controller

\* C5: a fetch creates one transport handle and calls shutdown() on it exactly
\* once on every exit path; loading is false only when the handle is released.
C5_ShutdownExactlyOnce ==
    /\ hist.inits \in {0, 1}
    /\ pc \in {"discovery", "content"} => fetcher = "open" /\ hist.shutdowns = 0
    /\ pc = "shutdown" => loading /\ fetcher = "shutdown" /\ hist.shutdowns = 1
    /\ ~loading => fetcher \in {"none", "closed"} /\ hist.shutdowns = hist.inits
    /\ loading => hist.inits = 1

\* a fetch that ended by a thrown error has released its handle
C5_Witness ==
    /\ pc = "idle"
    /\ hist.cause = "error"
    /\ fetcher = "closed"
    /\ hist.shutdowns = 1

\* the tags the spec selects: relay references with a valid wss:// value and
\* a marker other than 'read'
EligibleTag(tag) ==
    /\ Len(tag) >= 2
    /\ tag[1] = "r"
    /\ StartsWithWss(tag[2])
    /\ CanParse(tag[2])
    /\ ~(Len(tag) >= 3 /\ tag[3] = "read")

RECURSIVE EligibleRelays(_)
EligibleRelays(tags) ==
    IF tags = <<>> THEN <<>>
    ELSE (IF EligibleTag(Head(tags)) THEN <<Head(tags)[2]>> ELSE <<>>)
         \o EligibleRelays(Tail(tags))

\* C6: resolution yields the default relays whenever no relay-list document
\* was retained or the retained one has no eligible endpoint.
C6_FallbackToDefaults ==
    pc = "resolved" /\ EligibleRelays(relayListEvent.tags) = <<>> =>
        writeRelays = defaultRelays

\* C7: when the retained relay-list document has an eligible endpoint, the
\* resolved relays are exactly the eligible values in tag order.
C7_WriteRelaysInTagOrder ==
    pc = "resolved" /\ EligibleRelays(relayListEvent.tags) # <<>> =>
        writeRelays = EligibleRelays(relayListEvent.tags)

\* the inputs of the model that are no identity
InvalidIdentities == {<<" ">> \o NpubBad, SubSeq(TargetKey, 1, 63)}

\* C8: a fetch whose input cannot be normalised opens no iterator, has a
\* non-null error and an empty feed, and ends with loading false.
C8_InvalidIdentityNoNetwork ==
    hist.inits = 1 /\ hist.input \in InvalidIdentities =>
        /\ hist.subs = 0
        /\ error # "null"
        /\ events = <<>>
        /\ pc \in {"shutdown", "idle"}
        /\ pc = "idle" => ~loading

\* a fetch of a malformed npub has ended
C8_Witness ==
    /\ hist.input = <<" ">> \o NpubBad
    /\ hist.cause = "identity"
    /\ pc = "idle"
    /\ ~loading
    /\ error = MsgBadNpub

\* C9: if the content iterator eventually ends or throws, every started fetch
\* ends with loading false; and a fetch whose content signal is aborted ends
\* even when the iterator would never end by itself and posts are undelivered.
C9_FetchTerminates ==
    /\ WF_vars(ContentDone \/ ContentError) => (loading ~> ~loading)
    /\ (pc = "content" /\ signal \in aborted) ~> ~loading

\* a cancelled fetch has ended before the relays delivered all they could
C9_Witness ==
    /\ hist.cause = "cancel"
    /\ ~loading
    /\ delivered < MaxDeliveries

HasMatch(ps) == \E i \in 1..Len(ps) : ps[i].isMatch

InFeed(evs, id) == \E i \in 1..Len(evs) : evs[i].id = id

\* C10: for a query that is non-empty after trimming, a post is in the
\* filtered view exactly when the highlight of its payload under the trimmed
\* query has a matching part.
C10_FilterSpanConsistency ==
    trim(searchQuery) # <<>> =>
        \A i \in 1..Len(events) :
            events[i].kind = 1 =>
                (InFeed(filteredEvents(events, searchQuery), events[i].id)
                 <=> HasMatch(splitTextForHighlight(events[i].content, trim(searchQuery))))

\* a query with surrounding whitespace keeps one post of the feed and drops
\* the other
C10_Witness ==
    /\ trim(searchQuery) # <<>>
    /\ searchQuery # trim(searchQuery)
    /\ Len(filteredEvents(events, searchQuery)) = 1

\* offset of part i in the text: the lengths of the parts before it
RECURSIVE PartOffset(_, _)
PartOffset(ps, i) == IF i <= 1 THEN 0 ELSE PartOffset(ps, i - 1) + Len(ps[i - 1].text)

\* the spans [from, to) of the matching parts, in order
RECURSIVE MatchSpans(_, _)
MatchSpans(ps, i) ==
    IF i > Len(ps) THEN <<>>
    ELSE (IF ps[i].isMatch
          THEN <<<<PartOffset(ps, i), PartOffset(ps, i) + Len(ps[i].text)>>>>
          ELSE <<>>)
         \o MatchSpans(ps, i + 1)

\* C11: for a non-empty query every match span has the query's length and
\* covers a case-insensitive occurrence of the query; for query "cat" and
\* payload "concatcat" the spans are [3,6) and [6,9).
C11_SpansAreOccurrences ==
    /\ MatchSpans(splitTextForHighlight(<<"c", "o", "n", "c", "a", "t", "c", "a", "t">>,
                                        <<"c", "a", "t">>), 1)
         = <<<<3, 6>>, <<6, 9>>>>
    /\ trim(searchQuery) # <<>> =>
         \A i \in 1..Len(parts) :
             parts[i].isMatch =>
                 /\ Len(parts[i].text) = Len(trim(searchQuery))
                 /\ toLowerCase(parts[i].text) = toLowerCase(trim(searchQuery))

\* C12: the retained relay-list document is authored by the requested
\* identity, whatever the discovery relays deliver.
C12_RelayListOfRequestedAuthor ==
    relayListEvent # NoEvent => relayListEvent.pubkey = pubkey

\* C13: a fetch that ended by a thrown error has a non-null error and keeps
\* the feed as merged up to the failure.
C13_ErrorKeepsMergedPosts ==
    hist.cause = "error" =>
        /\ error # "null"
        /\ events = hist.atCancel

\* the content iterator threw after posts were merged and the fetch has ended
C13_Witness ==
    /\ hist.cause = "error"
    /\ hist.subs = 2
    /\ Len(events) >= 2
    /\ pc = "idle"

\* the feed s with its element at position k removed
RemoveAt(s, k) == SubSeq(s, 1, k - 1) \o SubSeq(s, k + 1, Len(s))

RECURSIVE ConcatParts(_)
ConcatParts(ps) == IF ps = <<>> THEN <<>> ELSE Head(ps).text \o ConcatParts(Tail(ps))

C20_PartsPartitionText ==
    parts # <<>> =>
        /\ ConcatParts(parts) = events[1].content
        /\ events[1].content # <<>> => \A i \in 1..Len(parts) : parts[i].text # <<>>
        /\ trim(searchQuery) = <<>> =>
               parts = <<[text |-> events[1].content, isMatch |-> FALSE]>>

\* the first document of s among those with the largest created_at
FirstNewest(s) ==
    IF s = <<>> THEN NoEvent
    ELSE s[CHOOSE k \in 1..Len(s) :
               \A j \in 1..Len(s) :
                   /\ s[j].created_at <= s[k].created_at
                   /\ j < k => s[j].created_at < s[k].created_at]

\* C15: the retained relay-list document is the first received among the
\* relay-list documents of largest created_at, and each author's profile is
\* the first received among that author's profiles of largest created_at.
C15_SnapshotsFirstNewest ==
    /\ relayListEvent =
           FirstNewest(SelectSeq(hist.received, LAMBDA e : e.kind = 10002))
    /\ \A a \in Authors :
           profileEvents[a] =
               FirstNewest(SelectSeq(hist.received,
                                     LAMBDA e : e.kind = 0 /\ e.pubkey = a))

\* discovery is exhausted after two relay-list documents of the same
\* created_at arrived; the first is retained
C15_Witness ==
    /\ pc = "content"
    /\ Len(hist.received) >= 2
    /\ hist.received[1].kind = 10002
    /\ hist.received[2].kind = 10002
    /\ hist.received[1].id # hist.received[2].id
    /\ hist.received[1].created_at = hist.received[2].created_at
    /\ relayListEvent = hist.received[1]

\* C16: the step that starts a fetch empties the feed, the profile map, the
\* relay-list snapshot and the search text and replaces the error by that of
\* this fetch; while loading stays false the feed does not change.
C16_FeedLifecycle ==
    [][/\ ~loading /\ loading' =>
            /\ events' = <<>>
            /\ profileEvents' = NoProfiles
            /\ relayListEvent' = NoEvent
            /\ searchQuery' = <<>>
            /\ error' = normalizePubkey(publicKey).message
       /\ ~loading /\ ~loading' => events' = events]_vars

\* a fetch started after an earlier, aborted one is in discovery with an
\* empty feed
C16_Witness ==
    /\ pc = "discovery"
    /\ hist.c0 > 0
    /\ events = <<>>
    /\ searchQuery = <<>>

IsPrefix(s, t) == Len(s) <= Len(t) /\ SubSeq(t, 1, Len(s)) = s

RECURSIVE IsSubsequence(_, _)
IsSubsequence(s, t) ==
    IF s = <<>> THEN TRUE
    ELSE IF t = <<>> THEN FALSE
    ELSE IF Head(s) = Head(t) THEN IsSubsequence(Tail(s), Tail(t))
    ELSE IsSubsequence(s, Tail(t))

C18_DiscoveryNotCancelable ==
    /\ pc = "discovery" /\ delivered < MaxDeliveries => ENABLED DiscoveryDeliver
    /\ pc = "discovery" => loading /\ hist.cause = "none" /\ signal = -1 /\ hist.subs = 1
    /\ pc = "content" =>
           /\ hist.subs = 2
           /\ writeRelays = extractWriteRelays(relayListEvent).value
    /\ hist.cause = "cancel" => hist.subs = 2

\* abort() was called during discovery, documents were delivered, and the
\* content iterator is open with the controller installed by that abort()
C18_Witness ==
    /\ pc = "content"
    /\ hist.c0 < signal
    /\ signal \notin aborted
    /\ delivered >= 1
    /\ relayListEvent # NoEvent

\* C19: loading is true exactly while a fetch runs and its handle is not yet
\* released, and the fetch button is enabled only when loading is false and
\* no handle is open.
C19_OneFetchInFlight ==
    /\ loading <=> pc # "idle"
    /\ loading <=> fetcher \in {"open", "shutdown"}
    /\ ENABLED FetchStart => ~loading /\ fetcher \in {"none", "closed"}

\* a completed fetch waits for shutdown() with a key in the input: only
\* loading keeps the button disabled
C19_Witness ==
    /\ pc = "shutdown"
    /\ hist.cause = "complete"
    /\ loading
    /\ trim(publicKey) # <<>>

====
